---------------------------- MODULE Spec2Model ----------------------------
(***************************************************************************)
(* Group Scheduler (src/planner.py): the editable weekly grid              *)
(* (ScheduleCanvas), the registry of imported schedules and the overlap    *)
(* display (GroupSchedulerApp, OverlapCanvas), and the delimited text      *)
(* files the two exchange.                                                 *)
(*                                                                         *)
(* Text is modelled at the level the csv module works on: a file is a      *)
(* sequence of lines, a line a sequence of tokens, a token either a        *)
(* separator character ("\t", ","), a digit, a sign, or a run of other     *)
(* characters holding no separator and no digit.  A field is the           *)
(* sequence of tokens between two separators.  No field of the model       *)
(* holds a quote character or a line break, so csv's quoting never acts.   *)
(* A file name is the pair <<stem, extension>>.                            *)
(***************************************************************************)
EXTENDS Integers, Sequences, FiniteSets, TLC

VARIABLES
    schedule,           \* ScheduleCanvas.schedule: the keys of the dict (every value is True)
    drag_start,         \* ScheduleCanvas.drag_start: a cell or None
    drag_current,       \* ScheduleCanvas.drag_current
    drag_mode,          \* ScheduleCanvas.drag_mode: "select", "deselect" or None
    editable,           \* ScheduleCanvas.editable
    event_cell,         \* the cell get_cell_at gave the last handler, None if it gave or asked none
    applied,            \* day, start_hour, end_hour of the loop the last on_mouse_up ran
    last_click,         \* history: the mouse-down and mouse-up on one cell that ran last
    disk,               \* the schedule files on disk: file name -> lines
    written,            \* the file the last handler wrote: file name and lines
    last_export,        \* what export_schedule last wrote: file name, username, schedule_data
    loaded_schedules,   \* GroupSchedulerApp.loaded_schedules: dict in insertion order
    loaded_listbox,     \* GroupSchedulerApp.loaded_listbox: the lines shown
    overlap_counts,     \* OverlapCanvas.overlap_counts: dict in insertion order
    total_participants, \* OverlapCanvas.total_participants
    lbl_part_count,     \* text of the participant count label
    lbl_match_count,    \* text of the full-match count label
    full_overlap_slots, \* the list update_overlaps built in the last handler
    tree,               \* rows of the full-match Treeview
    op,                 \* the handler that ran last
    outcome,            \* the message box it ended in: "none", "warning", "error", "info"
    message,            \* the text of that message box
    errors,             \* the files the last handler reported with showerror, in order
    last_batch,         \* the file names askopenfilenames returned to the last handler
    probe_count,        \* the count of the cell draw_grid colours
    probe_color         \* the colour get_color_for_count gave it

vars == <<schedule, drag_start, drag_current, drag_mode, editable, event_cell, applied,
          last_click, disk, written, last_export,
          loaded_schedules, loaded_listbox, overlap_counts, total_participants,
          lbl_part_count, lbl_match_count, full_overlap_slots, tree,
          op, outcome, message, errors, last_batch, probe_count, probe_color>>

editVars == <<schedule, drag_start, drag_current, drag_mode, editable>>
mouseVars == <<event_cell, applied, last_click>>
registryVars == <<loaded_schedules, loaded_listbox>>
displayVars == <<overlap_counts, total_participants, lbl_part_count,
                 lbl_match_count, tree>>
probeVars == <<probe_count, probe_color>>

-----------------------------------------------------------------------------
(* Bounds of the model *)

\* most files one file dialog selection holds
MaxBatch == 2
\* load_schedules is not taken once the registry holds this many entries
MaxParticipants == 3
\* largest total_participants the colour probe draws
MaxTotal == 13

-----------------------------------------------------------------------------
(* Program constants *)

START_HOUR == 9
END_HOUR == 20
cell_width == 100
cell_height == 40
header_height == 30
time_width == 60

DAYS == <<"Monday", "Tuesday", "Wednesday", "Thursday", "Friday", "Saturday", "Sunday">>

\* Python's None, where a cell, a string or a record is expected
None == <<>>

Grid == (0 .. Len(DAYS) - 1) \X (START_HOUR .. END_HOUR - 1)

-----------------------------------------------------------------------------
(* Helpers for Python values *)

\* tuple comparison (day, hour) < (day, hour)
CellLess(a, b) == a[1] < b[1] \/ (a[1] = b[1] /\ a[2] < b[2])

RECURSIVE InsertSorted(_, _)
InsertSorted(c, s) ==
    IF s = <<>> THEN <<c>>
    ELSE IF CellLess(c, Head(s)) THEN <<c>> \o s
    ELSE <<Head(s)>> \o InsertSorted(c, Tail(s))

\* list.sort() / sorted() on a list of cells
RECURSIVE Sorted(_)
Sorted(s) == IF s = <<>> THEN <<>> ELSE InsertSorted(Head(s), Sorted(Tail(s)))

\* the elements of a set of cells as a list, in some order
RECURSIVE SetToSeq(_)
SetToSeq(S) ==
    IF S = {} THEN <<>>
    ELSE LET c == CHOOSE x \in S : TRUE IN <<c>> \o SetToSeq(S \ {c})

Range(s) == {s[i] : i \in DOMAIN s}

\* str(n) for an integer, as digit tokens
Digit(d) == CASE d = 0 -> "0" [] d = 1 -> "1" [] d = 2 -> "2" [] d = 3 -> "3"
              [] d = 4 -> "4" [] d = 5 -> "5" [] d = 6 -> "6" [] d = 7 -> "7"
              [] d = 8 -> "8" [] d = 9 -> "9"

RECURSIVE StrNat(_)
StrNat(n) == IF n < 10 THEN <<Digit(n)>> ELSE StrNat(n \div 10) \o <<Digit(n % 10)>>

Str(n) == IF n < 0 THEN <<"-">> \o StrNat(-n) ELSE StrNat(n)

\* the characters of a field as one string
RECURSIVE Text(_)
Text(f) == IF f = <<>> THEN "" ELSE Head(f) \o Text(Tail(f))

\* no file
NoFile == [filename |-> None, lines |-> <<>>]

\* a handler that shows no message box
Silent == outcome' = "none" /\ message' = ""

\* a handler that opens no file dialog, reads and writes no file and does not
\* reach update_overlaps: none of those locals exists when it returns
NoFileWork ==
    /\ written' = NoFile
    /\ errors' = <<>>
    /\ last_batch' = <<>>
    /\ full_overlap_slots' = <<>>

-----------------------------------------------------------------------------
(* ScheduleCanvas *)

get_cell_at(x, y) ==
    IF x < time_width \/ y < header_height THEN None
    ELSE LET day == (x - time_width) \div cell_width
             hour == (y - header_height) \div cell_height + START_HOUR
         IN IF 0 <= day /\ day < Len(DAYS) /\ START_HOUR <= hour /\ hour < END_HOUR
            THEN <<day, hour>>
            ELSE None

\* the loop of on_mouse_up setting every cell, whatever drag_mode is
ApplyDrag_select(sched, day, start_hour, end_hour, mode) ==
    sched \cup {<<day, h>> : h \in start_hour .. end_hour}

\* the schedule after the loop of on_mouse_up over range(start_hour, end_hour + 1)
ApplyDrag(sched, day, start_hour, end_hour, mode) ==
    IF mode = "select"
    THEN sched \cup {<<day, h>> : h \in start_hour .. end_hour}
    ELSE sched \ {<<day, h>> : h \in start_hour .. end_hour}

\* the start_hour of on_mouse_up taken from drag_start alone
Min_first(a, b) == a

Min(a, b) == IF a <= b THEN a ELSE b
Max(a, b) == IF a >= b THEN a ELSE b

\* drag_mode = None; a string, as the other values of drag_mode are
NoMode == "None"

\* on_mouse_drag taking a cell of any day
SameDay_any(cell, start) == TRUE

\* cell[0] == self.drag_start[0]
SameDay(cell, start) == cell[1] = start[1]

\* on_mouse_up returned before its loop
NoDrag == [ran |-> FALSE, day |-> 0, start_hour |-> 0, end_hour |-> 0, mode |-> NoMode]

\* the last handlers were no mouse-down and mouse-up on one cell
NoClick == [cell |-> None, before |-> {}, twice |-> FALSE]

\* a handler that is no mouse handler
NoMouseWork ==
    /\ event_cell' = None
    /\ applied' = NoDrag
    /\ last_click' = NoClick

\* last_click stays through the mouse-down that follows the click on its cell
on_mouse_down(ev) ==
    /\ IF ~editable
       THEN /\ UNCHANGED <<drag_start, drag_current, drag_mode>>
            /\ event_cell' = None
            /\ last_click' = NoClick
       ELSE \E cell \in {get_cell_at(ev[1], ev[2])} :
            /\ IF cell # None
               THEN /\ drag_start' = cell
                    /\ drag_current' = cell
                    /\ drag_mode' = IF cell \in schedule THEN "deselect" ELSE "select"
               ELSE UNCHANGED <<drag_start, drag_current, drag_mode>>
            /\ event_cell' = cell
            /\ last_click' = IF op = "on_mouse_up" /\ cell # None /\ last_click.cell = cell
                             THEN last_click
                             ELSE NoClick
    /\ applied' = NoDrag
    /\ op' = "on_mouse_down"
    /\ Silent
    /\ NoFileWork
    /\ UNCHANGED <<schedule, editable, disk, last_export, registryVars, displayVars,
                   probeVars>>

on_mouse_drag(ev) ==
    /\ IF ~editable \/ drag_start = None
       THEN /\ UNCHANGED drag_current
            /\ event_cell' = None
       ELSE \E cell \in {get_cell_at(ev[1], ev[2])} :
            /\ IF cell # None /\ SameDay(cell, drag_start)
               THEN drag_current' = cell
               ELSE UNCHANGED drag_current
            /\ event_cell' = cell
    /\ applied' = NoDrag
    /\ last_click' = NoClick
    /\ op' = "on_mouse_drag"
    /\ Silent
    /\ NoFileWork
    /\ UNCHANGED <<schedule, drag_start, drag_mode, editable, disk, last_export,
                   registryVars, displayVars, probeVars>>

\* last_click: the mouse-down that ran before this handler was on a cell; twice:
\* and before it ran the mouse-down and mouse-up of a click on the same cell
on_mouse_up(ev) ==
    /\ IF ~editable \/ drag_start = None
       THEN /\ UNCHANGED <<schedule, drag_start, drag_current, drag_mode>>
            /\ applied' = NoDrag
       ELSE /\ schedule' =
                 IF drag_current # None
                 THEN ApplyDrag(schedule, drag_start[1],
                                Min(drag_start[2], drag_current[2]),
                                Max(drag_start[2], drag_current[2]), drag_mode)
                 ELSE schedule
            /\ applied' =
                 IF drag_current # None
                 THEN [ran |-> TRUE, day |-> drag_start[1],
                       start_hour |-> Min(drag_start[2], drag_current[2]),
                       end_hour |-> Max(drag_start[2], drag_current[2]),
                       mode |-> drag_mode]
                 ELSE NoDrag
            /\ drag_start' = None
            /\ drag_current' = None
            /\ drag_mode' = NoMode
    /\ last_click' = IF op = "on_mouse_down" /\ event_cell # None
                     THEN [cell |-> event_cell, before |-> schedule,
                           twice |-> last_click.cell = event_cell]
                     ELSE NoClick
    /\ event_cell' = None
    /\ op' = "on_mouse_up"
    /\ Silent
    /\ NoFileWork
    /\ UNCHANGED <<editable, disk, last_export, registryVars, displayVars, probeVars>>

\* GroupSchedulerApp.clear_schedule -> ScheduleCanvas.clear_schedule
clear_schedule ==
    /\ schedule' = {}
    /\ op' = "clear_schedule"
    /\ Silent
    /\ NoFileWork
    /\ NoMouseWork
    /\ UNCHANGED <<drag_start, drag_current, drag_mode, editable, disk, last_export,
                   registryVars, displayVars, probeVars>>

get_schedule_data(sched) == Sorted(SetToSeq(sched))

\* the keys of {cell: True for cell in data}
set_schedule_data(data) == Range(data)


-----------------------------------------------------------------------------
(* csv.writer and csv.DictReader *)

\* writer.writerow(fields): the fields joined by the delimiter
RECURSIVE writerow(_, _)
writerow(fields, delimiter) ==
    IF fields = <<>> THEN <<>>
    ELSE IF Len(fields) = 1 THEN Head(fields)
    ELSE Head(fields) \o <<delimiter>> \o writerow(Tail(fields), delimiter)

\* csv.reader on one line: the fields between delimiters; an empty line has none
RECURSIVE SplitFrom(_, _, _)
SplitFrom(line, delimiter, cur) ==
    IF line = <<>> THEN <<cur>>
    ELSE IF Head(line) = delimiter
         THEN <<cur>> \o SplitFrom(Tail(line), delimiter, <<>>)
         ELSE SplitFrom(Tail(line), delimiter, Append(cur, Head(line)))

SplitLine(line, delimiter) ==
    IF line = <<>> THEN <<>> ELSE SplitFrom(line, delimiter, <<>>)

\* DictReader's row: dict(zip(fieldnames, row)), then restval None for the
\* fieldnames the row is too short for.  kind: "missing" (no such key), "none", "str"
RowGet(fieldnames, fields, key) ==
    LET idx == {i \in DOMAIN fieldnames : Text(fieldnames[i]) = key} IN
    IF idx = {} THEN [kind |-> "missing", val |-> <<>>]
    ELSE LET last == CHOOSE i \in idx : \A j \in idx : j <= i IN
         IF last > Len(fields) THEN [kind |-> "none", val |-> <<>>]
         ELSE [kind |-> "str", val |-> fields[last]]

IsDigit(t) == t \in {"0", "1", "2", "3", "4", "5", "6", "7", "8", "9"}

DigitVal(t) == CASE t = "0" -> 0 [] t = "1" -> 1 [] t = "2" -> 2 [] t = "3" -> 3
                 [] t = "4" -> 4 [] t = "5" -> 5 [] t = "6" -> 6 [] t = "7" -> 7
                 [] t = "8" -> 8 [] t = "9" -> 9

RECURSIVE NatVal(_, _)
NatVal(digits, acc) ==
    IF digits = <<>> THEN acc ELSE NatVal(Tail(digits), 10 * acc + DigitVal(Head(digits)))

AllDigits(f) == f # <<>> /\ \A i \in DOMAIN f : IsDigit(f[i])

\* int(s) for the str s of a field: an optional sign, then digits; ValueError otherwise
ParseInt(f) ==
    IF AllDigits(f) THEN [ok |-> TRUE, val |-> NatVal(f, 0)]
    ELSE IF f # <<>> /\ Head(f) \in {"-", "+"} /\ AllDigits(Tail(f))
         THEN [ok |-> TRUE, val |-> IF Head(f) = "-" THEN -NatVal(Tail(f), 0)
                                    ELSE NatVal(Tail(f), 0)]
         ELSE [ok |-> FALSE, val |-> 0]

basename(filename) == filename[1] \o filename[2]

endswith_tsv(filename) == filename[2] = ".tsv"

\* The loop of load_schedules over the rows of one file.  username: [set, text],
\* set FALSE while the local is None.  ok FALSE: a row raised, at the rows kept so far.
RECURSIVE ReadRows(_, _, _, _, _, _)
ReadRows(fieldnames, lines, delimiter, filename, username, sched) ==
    IF lines = <<>> THEN [ok |-> TRUE, username |-> username, schedule |-> sched]
    ELSE LET fields == SplitLine(Head(lines), delimiter) IN
         IF fields = <<>>
         THEN ReadRows(fieldnames, Tail(lines), delimiter, filename, username, sched)
         ELSE LET u == RowGet(fieldnames, fields, "username")
                  name == IF username.set THEN username
                          ELSE IF u.kind = "missing"
                               THEN [set |-> TRUE, text |-> basename(filename)]
                          ELSE IF u.kind = "none" THEN [set |-> FALSE, text |-> ""]
                          ELSE [set |-> TRUE, text |-> Text(u.val)]
                  d == RowGet(fieldnames, fields, "day")
                  h == RowGet(fieldnames, fields, "hour")
                  day == ParseInt(d.val)
                  hour == ParseInt(h.val)
              IN IF d.kind # "str" \/ ~day.ok \/ h.kind # "str" \/ ~hour.ok
                 THEN [ok |-> FALSE, username |-> name, schedule |-> sched]
                 ELSE ReadRows(fieldnames, Tail(lines), delimiter, filename, name,
                               Append(sched, <<day.val, hour.val>>))

\* open(filename), DictReader and the row loop: the locals username and schedule
ReadFile(dsk, filename) ==
    IF filename \notin DOMAIN dsk
    THEN [ok |-> FALSE, username |-> [set |-> FALSE, text |-> ""], schedule |-> <<>>]
    ELSE LET lines == dsk[filename]
             delimiter == IF endswith_tsv(filename) THEN "\t" ELSE ","
         IN IF lines = <<>>
            THEN [ok |-> TRUE, username |-> [set |-> FALSE, text |-> ""], schedule |-> <<>>]
            ELSE ReadRows(SplitLine(Head(lines), delimiter), Tail(lines), delimiter,
                          filename, [set |-> FALSE, text |-> ""], <<>>)

-----------------------------------------------------------------------------
(* GroupSchedulerApp.export_schedule *)

\* the lines export_schedule writes
ScheduleLines(username, schedule_data) ==
    <<writerow(<<<<"username">>, <<"day">>, <<"day_name">>, <<"hour">>>>, "\t")>>
    \o [i \in 1 .. Len(schedule_data) |->
          writerow(<<<<username>>, Str(schedule_data[i][1]),
                     <<DAYS[schedule_data[i][1] + 1]>>, Str(schedule_data[i][2])>>, "\t")]

\* open(filename, 'w') raises for a path in a directory that does not exist
Writable(filename) == filename[1] # "/nodir/out"

\* "if not schedule_data" never holds
IsEmptySchedule_never(schedule_data) == FALSE

\* "if not schedule_data"
IsEmptySchedule(schedule_data) == schedule_data = <<>>

\* username: name_entry.get().strip(); filename: what asksaveasfilename returns
\* (None: the dialog was cancelled)
export_schedule(username, filename) ==
    \E schedule_data \in {get_schedule_data(schedule)} :
    /\ op' = "export_schedule"
    /\ IF username = ""
       THEN /\ outcome' = "warning"
            /\ message' = "Please enter your name first."
            /\ UNCHANGED <<disk, last_export>>
            /\ written' = NoFile
       ELSE IF IsEmptySchedule(schedule_data)
       THEN /\ outcome' = "warning"
            /\ message' = "Your schedule is empty."
            /\ UNCHANGED <<disk, last_export>>
            /\ written' = NoFile
       ELSE IF filename = None
       THEN /\ Silent
            /\ UNCHANGED <<disk, last_export>>
            /\ written' = NoFile
       ELSE IF ~Writable(filename)
       THEN /\ outcome' = "error"
            /\ message' = "Failed to export"
            /\ UNCHANGED <<disk, last_export>>
            /\ written' = NoFile
       ELSE \E lines \in {ScheduleLines(username, schedule_data)} :
            /\ disk' = (filename :> lines) @@ disk
            /\ written' = [filename |-> filename, lines |-> lines]
            /\ last_export' = [filename |-> filename, username |-> username,
                               schedule_data |-> schedule_data]
            /\ outcome' = "info"
            /\ message' = "Schedule exported"
    /\ errors' = <<>>
    /\ last_batch' = <<>>
    /\ full_overlap_slots' = <<>>
    /\ NoMouseWork
    /\ UNCHANGED <<editVars, registryVars, displayVars, probeVars>>

-----------------------------------------------------------------------------
(* GroupSchedulerApp.load_schedules, update_overlaps, clear_loaded_schedules *)

Keys(reg) == {reg[i].name : i \in DOMAIN reg}

\* self.loaded_schedules[username] = schedule
DictSet(reg, username, sched) ==
    IF username \in Keys(reg)
    THEN [i \in DOMAIN reg |->
            IF reg[i].name = username THEN [name |-> username, schedule |-> sched] ELSE reg[i]]
    ELSE Append(reg, [name |-> username, schedule |-> sched])

\* an if where the code has a while: one suffix is tried, and taken
Disambiguate_once(base_username, username, counter, keys) ==
    IF username \in keys
    THEN base_username \o "_" \o ToString(counter)
    ELSE username

\* the while loop that appends _1, _2, ... until the name is no key
RECURSIVE Disambiguate(_, _, _, _)
Disambiguate(base_username, username, counter, keys) ==
    IF username \in keys
    THEN Disambiguate(base_username, base_username \o "_" \o ToString(counter),
                      counter + 1, keys)
    ELSE username

\* the rows read before a row raised are stored like a whole file
Stored_partial(r) == r.username.set /\ r.username.text # "" /\ r.schedule # <<>>

\* the entry stored without "if username and schedule"
Stored_unguarded(r) == r.ok

\* whether the file's entry is stored: no row raised, and "if username and schedule"
Stored(r) == r.ok /\ r.username.set /\ r.username.text # "" /\ r.schedule # <<>>

\* one turn of the loop over filenames; st: [reg, listbox, errors]
LoadOne(st, dsk, filename) ==
    LET r == ReadFile(dsk, filename) IN
    IF Stored(r)
    THEN LET username == Disambiguate(r.username.text, r.username.text, 1, Keys(st.reg))
         IN [reg |-> DictSet(st.reg, username, r.schedule),
             listbox |-> Append(st.listbox,
                                username \o " (" \o ToString(Len(r.schedule)) \o " slots)"),
             errors |-> st.errors]
    ELSE IF ~r.ok THEN [st EXCEPT !.errors = Append(@, filename)]
    ELSE st

RECURSIVE LoadAll(_, _, _)
LoadAll(st, dsk, filenames) ==
    IF filenames = <<>> THEN st
    ELSE LoadAll(LoadOne(st, dsk, Head(filenames)), dsk, Tail(filenames))

\* dict.get(cell, 0) on a dict kept as a list of [cell, count] in insertion order
GetCount(counts, cell) ==
    IF \E i \in DOMAIN counts : counts[i].cell = cell
    THEN counts[CHOOSE i \in DOMAIN counts : counts[i].cell = cell].count
    ELSE 0

\* overlap_counts[cell] = overlap_counts.get(cell, 0) + 1
Increment(counts, cell) ==
    IF \E i \in DOMAIN counts : counts[i].cell = cell
    THEN [i \in DOMAIN counts |->
            IF counts[i].cell = cell THEN [counts[i] EXCEPT !.count = @ + 1] ELSE counts[i]]
    ELSE Append(counts, [cell |-> cell, count |-> 1])

RECURSIVE CountCells(_, _)
CountCells(counts, sched) ==
    IF sched = <<>> THEN counts ELSE CountCells(Increment(counts, Head(sched)), Tail(sched))

\* the counting loop of update_overlaps and of export_analysis
RECURSIVE CountOverlaps(_, _)
CountOverlaps(counts, reg) ==
    IF reg = <<>> THEN counts
    ELSE CountOverlaps(CountCells(counts, Head(reg).schedule), Tail(reg))

\* [cell for cell, count in overlap_counts.items() if count == total]
RECURSIVE FullCells(_, _)
FullCells(counts, total) ==
    IF counts = <<>> THEN <<>>
    ELSE (IF Head(counts).count = total THEN <<Head(counts).cell>> ELSE <<>>)
         \o FullCells(Tail(counts), total)

\* the list without full_overlap_slots.sort()
FullOverlapSlots_unsorted(counts, total) == FullCells(counts, total)

FullOverlapSlots(counts, total) == Sorted(FullCells(counts, total))

\* f"{hour:02d}:00"
TimeStr(hour) ==
    LET s == Str(hour) IN (IF Len(s) < 2 THEN "0" ELSE "") \o Text(s) \o ":00"

\* DAYS[day] raises IndexError outside -7 .. 6
DayIndexOk(day) == -Len(DAYS) <= day /\ day < Len(DAYS)
DayName(day) == IF day >= 0 THEN DAYS[day + 1] ELSE DAYS[day + Len(DAYS) + 1]

\* the rows inserted into the Treeview until DAYS[day] raises
RECURSIVE TreeRows(_)
TreeRows(slots) ==
    IF slots = <<>> THEN <<>>
    ELSE IF DayIndexOk(Head(slots)[1])
         THEN <<<<DayName(Head(slots)[1]), TimeStr(Head(slots)[2])>>>> \o TreeRows(Tail(slots))
         ELSE <<>>

\* update_overlaps counting on top of the tally on display
update_overlaps_patched(reg, display) ==
    IF reg = <<>> THEN [display EXCEPT !.full_overlap_slots = <<>>]
    ELSE LET counts == CountOverlaps(display.overlap_counts, reg)
             total == Len(reg)
             slots == FullOverlapSlots(counts, total)
         IN [overlap_counts |-> counts,
             total_participants |-> total,
             lbl_part_count |-> ToString(total),
             lbl_match_count |-> ToString(Len(slots)),
             full_overlap_slots |-> slots,
             tree |-> TreeRows(slots)]

\* update_overlaps: the display after it, from the registry and the display before
update_overlaps(reg, display) ==
    IF reg = <<>> THEN [display EXCEPT !.full_overlap_slots = <<>>]
    ELSE LET counts == CountOverlaps(<<>>, reg)
             total == Len(reg)
             slots == FullOverlapSlots(counts, total)
         IN [overlap_counts |-> counts,
             total_participants |-> total,
             lbl_part_count |-> ToString(total),
             lbl_match_count |-> ToString(Len(slots)),
             full_overlap_slots |-> slots,
             tree |-> TreeRows(slots)]

Display == [overlap_counts |-> overlap_counts,
            total_participants |-> total_participants,
            lbl_part_count |-> lbl_part_count,
            lbl_match_count |-> lbl_match_count,
            full_overlap_slots |-> full_overlap_slots,
            tree |-> tree]

\* filenames: what askopenfilenames returns (empty: the dialog was cancelled)
load_schedules(filenames) ==
    /\ Len(loaded_schedules) + Len(filenames) <= MaxParticipants
    /\ op' = "load_schedules"
    /\ last_batch' = filenames
    /\ message' = ""
    /\ IF filenames = <<>>
       THEN /\ outcome' = "none"
            /\ errors' = <<>>
            /\ full_overlap_slots' = <<>>
            /\ UNCHANGED <<registryVars, displayVars>>
       ELSE \E st \in {LoadAll([reg |-> loaded_schedules, listbox |-> loaded_listbox,
                                 errors |-> <<>>], disk, filenames)} :
            \E d \in {update_overlaps(st.reg, Display)} :
               /\ loaded_schedules' = st.reg
               /\ loaded_listbox' = st.listbox
               /\ errors' = st.errors
               /\ overlap_counts' = d.overlap_counts
               /\ total_participants' = d.total_participants
               /\ lbl_part_count' = d.lbl_part_count
               /\ lbl_match_count' = d.lbl_match_count
               /\ full_overlap_slots' = d.full_overlap_slots
               /\ tree' = d.tree
               /\ outcome' = IF st.reg # <<>> /\ Len(d.tree) < Len(d.full_overlap_slots)
                             THEN "uncaught"
                             ELSE IF st.errors # <<>> THEN "error" ELSE "none"
    /\ written' = NoFile
    /\ NoMouseWork
    /\ UNCHANGED <<editVars, disk, last_export, probeVars>>

clear_loaded_schedules ==
    /\ loaded_schedules' = <<>>
    /\ loaded_listbox' = <<>>
    /\ overlap_counts' = <<>>
    /\ total_participants' = 0
    /\ lbl_part_count' = "0"
    /\ lbl_match_count' = "0"
    /\ tree' = <<>>
    /\ op' = "clear_loaded_schedules"
    /\ Silent
    /\ NoFileWork
    /\ NoMouseWork
    /\ UNCHANGED <<editVars, disk, last_export, probeVars>>

-----------------------------------------------------------------------------
(* GroupSchedulerApp.export_analysis *)

\* f"{pct:.1f}%" for pct = count / total * 100, or 0 when total is 0: the tenths of
\* a percent, rounded half to even.  (The double count / total * 100 is within 2 ulp
\* of the exact quotient, and for total < 16 no quotient lies that close to a
\* rounding boundary.)
Tenths(count, total) ==
    IF total > 0
    THEN LET q == (count * 1000) \div total
             r == (count * 1000) % total
         IN IF 2 * r > total \/ (2 * r = total /\ q % 2 = 1) THEN q + 1 ELSE q
    ELSE 0

Percentage(count, total) ==
    LET t == Tenths(count, total) IN Str(t \div 10) \o <<".">> \o Str(t % 10) \o <<"%">>

AnalysisRow(counts, total, day, hour) ==
    writerow(<<Str(day), <<DAYS[day + 1]>>, Str(hour), Str(GetCount(counts, <<day, hour>>)),
               Str(total), Percentage(GetCount(counts, <<day, hour>>), total)>>, "\t")

\* the loop over hours stopping one hour early
RECURSIVE HourRows_short(_, _, _, _)
HourRows_short(counts, total, day, hour) ==
    IF hour >= END_HOUR - 1 THEN <<>>
    ELSE <<AnalysisRow(counts, total, day, hour)>>
         \o HourRows_short(counts, total, day, hour + 1)

\* for hour in range(START_HOUR, END_HOUR)
RECURSIVE HourRows(_, _, _, _)
HourRows(counts, total, day, hour) ==
    IF hour >= END_HOUR THEN <<>>
    ELSE <<AnalysisRow(counts, total, day, hour)>> \o HourRows(counts, total, day, hour + 1)

\* for day in range(7)
RECURSIVE DayRows(_, _, _)
DayRows(counts, total, day) ==
    IF day >= 7 THEN <<>>
    ELSE HourRows(counts, total, day, START_HOUR) \o DayRows(counts, total, day + 1)

AnalysisHeader ==
    writerow(<<<<"day">>, <<"day_name">>, <<"hour">>, <<"available_count">>,
               <<"total_participants">>, <<"percentage">>>>, "\t")

\* the lines export_analysis writes
AnalysisLines(reg) ==
    <<AnalysisHeader>> \o DayRows(CountOverlaps(<<>>, reg), Len(reg), 0)

\* export_analysis without its first check
AnalysisAttempted_always(reg) == TRUE

\* whether export_analysis goes past its first check
AnalysisAttempted(reg) == reg # <<>>

\* filename: what asksaveasfilename returns (None: the dialog was cancelled)
export_analysis(filename) ==
    /\ op' = "export_analysis"
    /\ IF ~AnalysisAttempted(loaded_schedules)
       THEN /\ outcome' = "warning"
            /\ message' = "No schedules loaded."
            /\ written' = NoFile
       ELSE IF filename = None
       THEN /\ Silent
            /\ written' = NoFile
       ELSE IF ~Writable(filename)
       THEN /\ outcome' = "error"
            /\ message' = "Failed to export"
            /\ written' = NoFile
       ELSE /\ written' = [filename |-> filename, lines |-> AnalysisLines(loaded_schedules)]
            /\ outcome' = "info"
            /\ message' = "Analysis exported"
    /\ errors' = <<>>
    /\ last_batch' = <<>>
    /\ full_overlap_slots' = <<>>
    /\ NoMouseWork
    /\ UNCHANGED <<editVars, disk, last_export, registryVars, displayVars, probeVars>>

-----------------------------------------------------------------------------
(* OverlapCanvas.get_color_for_count *)

\* the thresholds compared with > where the code has >=
get_color_for_count_strict(count, total) ==
    IF count = 0 THEN "white"
    ELSE IF total = 0 THEN "white"
    ELSE IF count = total THEN "#1B5E20"
    ELSE IF 4 * count > 3 * total THEN "#4CAF50"
    ELSE IF 2 * count > total THEN "#8BC34A"
    ELSE IF 4 * count > total THEN "#FFEB3B"
    ELSE "#FFCDD2"

\* ratio = count / total is compared with 1.0, 0.75, 0.5 and 0.25.  The double
\* division is correctly rounded and the four constants are doubles, so for
\* totals below 2^50 each comparison agrees with the exact one, which is written
\* here without division.
get_color_for_count(count, total) ==
    IF count = 0 THEN "white"
    ELSE IF total = 0 THEN "white"
    ELSE IF count = total THEN "#1B5E20"
    ELSE IF 4 * count >= 3 * total THEN "#4CAF50"
    ELSE IF 2 * count >= total THEN "#8BC34A"
    ELSE IF 4 * count >= total THEN "#FFEB3B"
    ELSE "#FFCDD2"

\* one cell of draw_grid: the colour for a count under the canvas' total_participants
probe_cell ==
    /\ probe_color = "unset"
    /\ probe_color' = get_color_for_count(probe_count, total_participants)
    /\ UNCHANGED <<editVars, mouseVars, disk, written, last_export, registryVars, displayVars,
                   full_overlap_slots, op, outcome, message, errors, last_batch,
                   probe_count>>

-----------------------------------------------------------------------------
(* The files on disk when the program starts *)

Header4 == <<<<"username">>, <<"day">>, <<"day_name">>, <<"hour">>>>

\* a row as export_schedule writes it, with any text as day_name
Row4(username, day, hour) == <<<<username>>, Str(day), <<"name">>, Str(hour)>>

alice_tsv == <<writerow(Header4, "\t"), writerow(Row4("Alice", 1, 9), "\t"),
               writerow(Row4("Alice", 0, 9), "\t")>>

team_csv == <<writerow(Header4, ","), writerow(Row4("Alice", 0, 9), ","),
              writerow(Row4("Alice", 0, 10), ",")>>

taken_tsv == <<writerow(Header4, "\t"), writerow(Row4("Alice_1", 0, 9), "\t")>>

\* the second row's hour is no integer
bad_tsv == <<writerow(Header4, "\t"), writerow(Row4("Dan", 0, 9), "\t"),
             writerow(<<<<"Dan">>, Str(0), <<"name">>, <<"ten">>>>, "\t")>>

\* the second row ends before its hour
short_tsv == <<writerow(Header4, "\t"), writerow(Row4("Sam", 0, 9), "\t"),
               writerow(<<<<"Sam">>, Str(0)>>, "\t")>>

\* the same row twice
dup_tsv == <<writerow(Header4, "\t"), writerow(Row4("Bob", 0, 9), "\t"),
             writerow(Row4("Bob", 0, 9), "\t")>>

\* a day and an hour outside the grid
far_tsv == <<writerow(Header4, "\t"), writerow(Row4("Eve", 7, 9), "\t"),
             writerow(Row4("Eve", 0, 25), "\t")>>

empty_tsv == <<writerow(Header4, "\t")>>

\* no username column
noname_tsv == <<writerow(<<<<"day">>, <<"hour">>>>, "\t"),
                writerow(<<Str(0), Str(10)>>, "\t")>>

HomeDisk == (<<"alice", ".tsv">> :> alice_tsv)

NamesDisk == (<<"alice", ".tsv">> :> alice_tsv) @@ (<<"team", ".csv">> :> team_csv)
             @@ (<<"taken", ".tsv">> :> taken_tsv)

BrokenDisk == (<<"alice", ".tsv">> :> alice_tsv) @@ (<<"bad", ".tsv">> :> bad_tsv)
              @@ (<<"short", ".tsv">> :> short_tsv)

OddDisk == (<<"dup", ".tsv">> :> dup_tsv) @@ (<<"far", ".tsv">> :> far_tsv)
           @@ (<<"empty", ".tsv">> :> empty_tsv) @@ (<<"noname", ".tsv">> :> noname_tsv)

\* a file name that is on no disk
MissingFile == <<"missing", ".tsv">>

-----------------------------------------------------------------------------
(* The inputs of the handlers *)

\* mouse positions: in cell (0, 9), left of the grid
Points == {<<60, 30>>, <<59, 30>>}

Usernames == {"", "Zed"}

ExportNames == {None, <<"out", ".tsv">>, <<"out", ".csv">>, <<"/nodir/out", ".tsv">>}

AnalysisNames == {None, <<"schedule_analysis", ".tsv">>, <<"/nodir/out", ".tsv">>}

\* the selections of at most MaxBatch distinct files among names
Batches(names) ==
    {b \in UNION {[1 .. n -> names] : n \in 0 .. MaxBatch} :
        \A i, j \in DOMAIN b : i # j => b[i] # b[j]}

\* the names the open dialog returns: of the schedule files, and of one that is gone
LoadChoices == (DOMAIN disk) \cup {MissingFile}

-----------------------------------------------------------------------------
(* Specifications *)

NoExport == [filename |-> None, username |-> "", schedule_data |-> <<>>]

\* ScheduleCanvas.__init__ after self.schedule and self.editable are set
InitCanvas ==
    /\ drag_start = None
    /\ drag_current = None
    /\ drag_mode = NoMode
    /\ event_cell = None
    /\ applied = NoDrag
    /\ last_click = NoClick

\* GroupSchedulerApp.__init__ apart from its schedule canvas
InitWindow ==
    /\ written = NoFile
    /\ last_export = NoExport
    /\ loaded_schedules = <<>>
    /\ loaded_listbox = <<>>
    /\ overlap_counts = <<>>
    /\ lbl_part_count = "0"
    /\ lbl_match_count = "0"
    /\ full_overlap_slots = <<>>
    /\ tree = <<>>
    /\ op = "init"
    /\ outcome = "none"
    /\ message = ""
    /\ errors = <<>>
    /\ last_batch = <<>>

\* the canvas of the Create Schedule tab is editable and starts empty
InitApp ==
    /\ schedule = {}
    /\ editable = TRUE
    /\ InitCanvas
    /\ InitWindow

Init ==
    /\ InitApp
    /\ disk = HomeDisk
    /\ total_participants = 0
    /\ probe_count = 0
    /\ probe_color = "unset"

Next ==
    \/ \E ev \in Points : on_mouse_down(ev)
    \/ \E ev \in Points : on_mouse_drag(ev)
    \/ \E ev \in Points : on_mouse_up(ev)
    \/ clear_schedule
    \/ \E username \in Usernames, filename \in ExportNames : export_schedule(username, filename)
    \/ \E filenames \in Batches(LoadChoices) : load_schedules(filenames)
    \/ clear_loaded_schedules
    \/ \E filename \in AnalysisNames : export_analysis(filename)

\* the whole application, started beside one schedule file
Spec == Init /\ [][Next]_vars

InitImport ==
    /\ InitApp
    /\ disk \in {NamesDisk, BrokenDisk, OddDisk}
    /\ total_participants = 0
    /\ probe_count = 0
    /\ probe_color = "unset"

NextImport ==
    \/ \E filenames \in Batches(LoadChoices) : load_schedules(filenames)
    \/ clear_loaded_schedules

\* the View Overlaps tab alone, over each of three directories of schedule files
SpecImport == InitImport /\ [][NextImport]_vars

InitColor ==
    /\ InitApp
    /\ disk = HomeDisk
    /\ total_participants \in 0 .. MaxTotal
    /\ probe_count \in 0 .. total_participants
    /\ probe_color = "unset"

NextColor == probe_cell

\* get_color_for_count on every count of every total up to MaxTotal
SpecColor == InitColor /\ [][NextColor]_vars

\* event.x, event.y of the mouse events: in the cells (0, 9) (two points),
\* (0, 10), (0, 11), (1, 9), (1, 10) and (6, 19), and left of, above, right of
\* and below the grid
MousePoints ==
    {<<60, 30>>, <<159, 69>>, <<60, 70>>, <<100, 110>>, <<160, 30>>, <<259, 109>>,
     <<759, 469>>, <<59, 30>>, <<60, 29>>, <<760, 30>>, <<60, 470>>}

\* the schedule_data a participant popup is opened with
PopupData == {<< <<1, 9>>, <<0, 9>> >>, << <<0, 9>>, <<0, 10>> >>}

\* one ScheduleCanvas: the editable one of the Create Schedule tab, or the one
\* of a participant popup, which is not editable and shows schedule_data
InitMouse ==
    /\ editable \in BOOLEAN
    /\ schedule \in (IF editable THEN {{}} ELSE {set_schedule_data(data) : data \in PopupData})
    /\ InitCanvas
    /\ InitWindow
    /\ disk = HomeDisk
    /\ total_participants = 0
    /\ probe_count = 0
    /\ probe_color = "unset"

NextMouse ==
    \/ \E ev \in MousePoints : on_mouse_down(ev)
    \/ \E ev \in MousePoints : on_mouse_drag(ev)
    \/ \E ev \in MousePoints : on_mouse_up(ev)

\* the mouse events of one canvas, in any order
SpecMouse == InitMouse /\ [][NextMouse]_vars

-----------------------------------------------------------------------------
(* Properties of the registry and the overlap display *)

\* the participants of the registry available at a cell
AvailableAt(reg, cell) == {i \in DOMAIN reg : cell \in Range(reg[i].schedule)}

\* C1: the tally count of every grid coordinate is the number of registry
\* participants available at it, total is the number of participants in the
\* registry, and so 0 <= count <= total.
C1_TallyCountsParticipants ==
    /\ total_participants = Len(loaded_schedules)
    /\ \A cell \in Grid :
          /\ GetCount(overlap_counts, cell) = Cardinality(AvailableAt(loaded_schedules, cell))
          /\ 0 <= GetCount(overlap_counts, cell)
          /\ GetCount(overlap_counts, cell) <= total_participants

TallyCells == {overlap_counts[i].cell : i \in DOMAIN overlap_counts}

Ascending(s) == \A i \in 1 .. Len(s) - 1 : CellLess(s[i], s[i + 1])

\* C2: the full-match list update_overlaps builds holds exactly the coordinates
\* whose tally count equals total, total being positive, each once and in
\* ascending (day, hour) order, and the full-match label shows its length; with
\* an empty registry the list and the tree are empty and the label shows 0.
C2_FullMatchesExact ==
    /\ (op = "load_schedules" /\ last_batch # <<>> /\ loaded_schedules # <<>>) =>
          /\ total_participants > 0
          /\ Range(full_overlap_slots) =
                {c \in TallyCells : GetCount(overlap_counts, c) = total_participants}
          /\ Ascending(full_overlap_slots)
          /\ lbl_match_count = ToString(Len(full_overlap_slots))
    /\ loaded_schedules = <<>> =>
          /\ full_overlap_slots = <<>>
          /\ tree = <<>>
          /\ lbl_match_count = "0"

\* C2 witness: a load left two full matches, listed in another order than the
\* tally holds them
C2_Witness ==
    /\ op = "load_schedules"
    /\ Len(full_overlap_slots) = 2
    /\ overlap_counts[1].cell # full_overlap_slots[1]

\* what "day" or "hour" of a data line is: absent, no integer, or an integer
FieldIsInt(fieldnames, fields, key) ==
    /\ RowGet(fieldnames, fields, key).kind = "str"
    /\ ParseInt(RowGet(fieldnames, fields, key).val).ok

\* a file that fails: it is missing, or one of its data rows has no integer day
\* or no integer hour
Fails(dsk, filename) ==
    \/ filename \notin DOMAIN dsk
    \/ LET delimiter == IF filename[2] = ".tsv" THEN "\t" ELSE ","
           lines == dsk[filename]
       IN \E k \in 2 .. Len(lines) :
             /\ lines[k] # <<>>
             /\ \/ ~FieldIsInt(SplitLine(lines[1], delimiter),
                               SplitLine(lines[k], delimiter), "day")
                \/ ~FieldIsInt(SplitLine(lines[1], delimiter),
                               SplitLine(lines[k], delimiter), "hour")

\* the participant names of the files of a batch that are stored, in batch order
RECURSIVE StoredBases(_, _)
StoredBases(dsk, filenames) ==
    IF filenames = <<>> THEN <<>>
    ELSE (IF Stored(ReadFile(dsk, Head(filenames)))
          THEN <<ReadFile(dsk, Head(filenames)).username.text>> ELSE <<>>)
         \o StoredBases(dsk, Tail(filenames))

Suffixed(base, k) == base \o "_" \o ToString(k)

\* C3: an import stores each new entry under its participant name, or when
\* that is a key already under base_k for the smallest positive k such that
\* base_k is no key; it leaves every existing entry as it is, and the keys
\* stay unique.
C3_NamesDisambiguated ==
    [][op' = "load_schedules" =>
         LET bases == StoredBases(disk, last_batch')
             n == Len(loaded_schedules)
             after == loaded_schedules'
         IN /\ Len(after) = n + Len(bases)
            /\ \A i \in 1 .. n : after[i] = loaded_schedules[i]
            /\ \A i, j \in DOMAIN after : i # j => after[i].name # after[j].name
            /\ \A i \in 1 .. Len(bases) :
                  LET prior == {after[j].name : j \in 1 .. n + i - 1}
                      name == after[n + i].name
                  IN IF bases[i] \notin prior THEN name = bases[i]
                     ELSE \E k \in 1 .. n + i :
                             /\ name = Suffixed(bases[i], k)
                             /\ name \notin prior
                             /\ \A m \in 1 .. k - 1 : Suffixed(bases[i], m) \in prior
    ]_vars

\* C3 witness: base name and base_1 were keys, and a load stored base_2
C3_Witness ==
    /\ op = "load_schedules"
    /\ {"Alice", "Alice_1"} \subseteq Keys(loaded_schedules)
    /\ loaded_schedules[Len(loaded_schedules)].name = "Alice_2"

\* C4: no availability set the program holds has a coordinate outside the grid
C4_CoordinatesInGrid ==
    /\ schedule \subseteq Grid
    /\ \A i \in DOMAIN loaded_schedules : Range(loaded_schedules[i].schedule) \subseteq Grid

\* C5: a batch import leaves the registry that importing the batch without its
\* failing files leaves, and reports exactly the failing files
C5_FailingFileAddsNothing ==
    [][op' = "load_schedules" =>
         LET Good(f) == ~Fails(disk, f)
             Bad(f) == Fails(disk, f)
             st == LoadAll([reg |-> loaded_schedules, listbox |-> loaded_listbox,
                            errors |-> <<>>], disk, SelectSeq(last_batch', Good))
         IN /\ loaded_schedules' = st.reg
            /\ loaded_listbox' = st.listbox
            /\ errors' = SelectSeq(last_batch', Bad)
    ]_vars

\* C5 witness: a batch of a file whose second row fails and a good file after
\* it: the first is reported, the second stored
C5_Witness ==
    /\ op = "load_schedules"
    /\ last_batch = << <<"bad", ".tsv">>, <<"alice", ".tsv">> >>
    /\ errors = << <<"bad", ".tsv">> >>
    /\ Keys(loaded_schedules) = {"Alice"}

-----------------------------------------------------------------------------
(* Properties of the coverage colours *)

\* the coverage band a colour of get_color_for_count stands for
BandOf(color) ==
    CASE color = "white" -> "NONE"
      [] color = "#1B5E20" -> "FULL"
      [] color = "#4CAF50" -> "HIGH"
      [] color = "#8BC34A" -> "MEDIUM"
      [] color = "#FFEB3B" -> "LOW"
      [] color = "#FFCDD2" -> "MINIMAL"
      [] OTHER -> "no band"

\* C6: for 0 <= count <= total the colour is that of NONE when count = 0 or
\* total = 0, FULL when count = total > 0, HIGH when 3*total <= 4*count < 4*total,
\* MEDIUM when 2*total <= 4*count < 3*total, LOW when total <= 4*count < 2*total,
\* MINIMAL when 0 < 4*count < total; so the ratios 0, 0.25, 0.5, 0.75 and 1 give
\* NONE, LOW, MEDIUM, HIGH and FULL.
C6_CoverageBands ==
    probe_color # "unset" =>
        LET count == probe_count
            total == total_participants
            band == BandOf(probe_color)
        IN /\ band \in {"NONE", "FULL", "HIGH", "MEDIUM", "LOW", "MINIMAL"}
           /\ (count = 0 \/ total = 0) => band = "NONE"
           /\ (count = total /\ total > 0) => band = "FULL"
           /\ (3 * total <= 4 * count /\ 4 * count < 4 * total) => band = "HIGH"
           /\ (2 * total <= 4 * count /\ 4 * count < 3 * total) => band = "MEDIUM"
           /\ (total <= 4 * count /\ 4 * count < 2 * total) => band = "LOW"
           /\ (0 < 4 * count /\ 4 * count < total) => band = "MINIMAL"

\* C6 witness: a count of exactly a quarter of the total was coloured
C6_Witness ==
    /\ probe_color # "unset"
    /\ probe_count > 0
    /\ 4 * probe_count = total_participants

-----------------------------------------------------------------------------
(* Properties of the exports *)

\* C7: exporting a non-empty schedule and importing the file written into an
\* empty registry leaves one registry entry, keyed by the exported username,
\* whose set of coordinates is the exported set
C7_RoundTrip ==
    [][(/\ op' = "load_schedules"
        /\ loaded_schedules = <<>>
        /\ last_export # NoExport
        /\ last_batch' = <<last_export.filename>>)
       => /\ Len(loaded_schedules') = 1
          /\ loaded_schedules'[1].name = last_export.username
          /\ Range(loaded_schedules'[1].schedule) = Range(last_export.schedule_data)
    ]_vars

\* the fields of the k-th data row of a file of tab separated lines
DataRow(lines, k) == SplitLine(lines[k + 1], "\t")

\* C8 as stated: an analysis export with zero participants writes 77 rows, each
\* with available_count 0 and percentage 0.0%
C8_ZeroParticipantsRows ==
    (op = "export_analysis" /\ loaded_schedules = <<>>) =>
        /\ Len(written.lines) = 78
        /\ \A k \in 1 .. 77 :
              /\ DataRow(written.lines, k)[4] = <<"0">>
              /\ DataRow(written.lines, k)[6] = <<"0", ".", "0", "%">>

\* C8 amended: an analysis export with zero participants writes no file and
\* ends in the warning "No schedules loaded."; in a file an analysis export
\* writes, every row with available_count 0 has percentage 0.0%
C8_ZeroParticipantsWarned ==
    op = "export_analysis" =>
        /\ loaded_schedules = <<>> =>
              /\ written = NoFile
              /\ outcome = "warning"
              /\ message = "No schedules loaded."
        /\ \A k \in 1 .. Len(written.lines) - 1 :
              DataRow(written.lines, k)[4] = <<"0">>
                  => DataRow(written.lines, k)[6] = <<"0", ".", "0", "%">>

\* C8 witness: an analysis export was asked for with no participant loaded
C8_Witness ==
    /\ op = "export_analysis"
    /\ loaded_schedules = <<>>
    /\ outcome = "warning"

\* C9: a file analysis export writes has exactly 77 data rows, one per grid
\* cell in day-major, hour-minor ascending order, each with the cell's tally
\* count as available_count (0 for a cell no participant selected) and the
\* registry size as total_participants
C9_AnalysisRows ==
    (op = "export_analysis" /\ written # NoFile) =>
        /\ Len(written.lines) = 78
        /\ \A k \in 1 .. 77 :
              LET row == DataRow(written.lines, k)
                  day == (k - 1) \div 11
                  hour == 9 + ((k - 1) % 11)
              IN /\ Len(row) = 6
                 /\ <<day, hour>> \in Grid
                 /\ row[1] = Str(day)
                 /\ row[3] = Str(hour)
                 /\ ParseInt(row[4]) =
                       [ok |-> TRUE, val |-> GetCount(overlap_counts, <<day, hour>>)]
                 /\ ParseInt(row[5]) = [ok |-> TRUE, val |-> Len(loaded_schedules)]

\* C9 witness: an analysis of two participants was written, with a cell both
\* selected and a cell none selected
C9_Witness ==
    /\ op = "export_analysis"
    /\ written # NoFile
    /\ Len(loaded_schedules) = 2
    /\ \E c \in Grid : GetCount(overlap_counts, c) = 2
    /\ \E c \in Grid : GetCount(overlap_counts, c) = 0

\* C10: exporting an empty schedule, and an analysis export with no participant
\* loaded, end in a warning: no file is written, and the edited schedule and
\* the registry are as before
C10_EmptyExportWarns ==
    [][(\/ (op' = "export_schedule" /\ schedule = {})
        \/ (op' = "export_analysis" /\ loaded_schedules = <<>>))
       => /\ outcome' = "warning"
          /\ written' = NoFile
          /\ disk' = disk
          /\ schedule' = schedule
          /\ loaded_schedules' = loaded_schedules
    ]_vars

\* C10 witness: a named user asked to export the empty schedule
C10_Witness ==
    /\ op = "export_schedule"
    /\ schedule = {}
    /\ outcome = "warning"
    /\ message = "Your schedule is empty."

-----------------------------------------------------------------------------
(* Properties of importing a file without data rows *)

\* a file on disk with a header line and no data row
HeaderOnly(dsk, filename) ==
    /\ filename \in DOMAIN dsk
    /\ Len(dsk[filename]) >= 1
    /\ \A k \in 2 .. Len(dsk[filename]) : dsk[filename][k] = <<>>

\* C11: importing files that hold a header and no data row adds no participant
\* and reports no error: the registry and the participant list after the
\* import are the registry and the list before it
C11_HeaderOnlyAddsNothing ==
    [][(/\ op' = "load_schedules"
        /\ last_batch' # <<>>
        /\ \A i \in DOMAIN last_batch' : HeaderOnly(disk, last_batch'[i]))
       => /\ loaded_schedules' = loaded_schedules
          /\ loaded_listbox' = loaded_listbox
          /\ errors' = <<>>
          /\ outcome' # "error"
    ]_vars

\* C11 witness: a header-only file was imported into a registry that holds a
\* participant, and no file is reported
C11_Witness ==
    /\ op = "load_schedules"
    /\ last_batch = << <<"empty", ".tsv">> >>
    /\ HeaderOnly(disk, <<"empty", ".tsv">>)
    /\ loaded_schedules # <<>>
    /\ errors = <<>>

-----------------------------------------------------------------------------
(* Properties of the overlap display after imports and clears *)

\* the coordinates the registry's entries hold
RegistryCells(reg) == UNION {Range(reg[i].schedule) : i \in DOMAIN reg}

\* how many times the entries of the registry hold a coordinate
Occurrences(reg, cell) ==
    Cardinality({ij \in UNION {{<<i, j>> : j \in DOMAIN reg[i].schedule} : i \in DOMAIN reg} :
                    reg[ij[1]].schedule[ij[2]] = cell})

\* the coordinates whose count over the registry is the number of participants
FullMatches(reg) ==
    {cell \in RegistryCells(reg) : Len(reg) > 0 /\ Occurrences(reg, cell) = Len(reg)}

\* C14: after every import and every clear-all, in any order, the tally on
\* display, the total, the participant label and the full-match label are the
\* ones counted anew from the registry as it is; after clear-all the tally is
\* empty and the total is 0
C14_DisplayMatchesRegistry ==
    /\ op \in {"load_schedules", "clear_loaded_schedules"} =>
          /\ TallyCells = RegistryCells(loaded_schedules)
          /\ \A i, j \in DOMAIN overlap_counts :
                overlap_counts[i].cell = overlap_counts[j].cell => i = j
          /\ \A cell \in TallyCells :
                GetCount(overlap_counts, cell) = Occurrences(loaded_schedules, cell)
          /\ total_participants = Len(loaded_schedules)
          /\ lbl_part_count = ToString(Len(loaded_schedules))
          /\ lbl_match_count = ToString(Cardinality(FullMatches(loaded_schedules)))
    /\ op = "clear_loaded_schedules" =>
          /\ loaded_schedules = <<>>
          /\ overlap_counts = <<>>
          /\ total_participants = 0

\* C14 witness: a second import added a participant to a registry that held
\* one, and the display counts both at a coordinate
C14_Witness ==
    /\ op = "load_schedules"
    /\ Len(last_batch) = 1
    /\ Len(loaded_schedules) = 2
    /\ total_participants = 2
    /\ \E cell \in Grid : GetCount(overlap_counts, cell) = 2

-----------------------------------------------------------------------------
(* Properties of editing with the mouse *)

\* the schedule with the membership of one cell changed
Toggled(sched, cell) == IF cell \in sched THEN sched \ {cell} ELSE sched \cup {cell}

\* C12: a click on a grid cell (mouse-down on it, then mouse-up) changes the
\* membership of that cell and of no other, and the second of two clicks in a
\* row on one cell leaves the schedule that was there before the first
C12_DoubleToggle ==
    [][(op' = "on_mouse_up" /\ op = "on_mouse_down" /\ event_cell # None)
       => /\ event_cell \in Grid
          /\ schedule' = Toggled(schedule, event_cell)
          /\ last_click.cell = event_cell => schedule' = last_click.before
    ]_vars

\* C12 witness: the second of two clicks on a selected cell is done, and the
\* cell is selected again beside another one
C12_Witness ==
    /\ op = "on_mouse_up"
    /\ last_click.twice
    /\ last_click.cell \in schedule
    /\ last_click.before = schedule \ {last_click.cell}
    /\ Cardinality(schedule) >= 2

\* the cells of day start[1] whose hour lies between the hours of start and current
DragCells(start, current) ==
    {cell \in Grid :
        /\ cell[1] = start[1]
        /\ \/ (start[2] <= cell[2] /\ cell[2] <= current[2])
           \/ (current[2] <= cell[2] /\ cell[2] <= start[2])}

\* C13: a mouse-down on a cell starts a drag at it, a mouse-drag on a cell of
\* the start's day moves the drag's end to it, and neither changes the
\* schedule; the mouse-up that ends a drag from (d, h1) to (d, h2) makes every
\* cell of day d with an hour between h1 and h2 selected if the start cell
\* was unselected, unselected otherwise, and leaves every other cell as it was
C13_DragUniform ==
    [][/\ (op' = "on_mouse_down" /\ event_cell' # None)
          => /\ drag_start' = event_cell'
             /\ drag_current' = event_cell'
             /\ schedule' = schedule
       /\ (op' = "on_mouse_drag" /\ drag_start # None)
          => /\ drag_start' = drag_start
             /\ drag_current' =
                   IF event_cell' # None /\ event_cell'[1] = drag_start[1]
                   THEN event_cell'
                   ELSE drag_current
             /\ schedule' = schedule
       /\ (op' = "on_mouse_up" /\ drag_start # None)
          => /\ drag_current # None
             /\ drag_current[1] = drag_start[1]
             /\ schedule' =
                   IF drag_start \notin schedule
                   THEN schedule \cup DragCells(drag_start, drag_current)
                   ELSE schedule \ DragCells(drag_start, drag_current)
    ]_vars

\* C13 witness: a drag over three hours of a day, started on a selected cell,
\* has unselected them, and a cell of another day is still selected
C13_Witness ==
    /\ op = "on_mouse_up"
    /\ applied.ran
    /\ applied.mode = "deselect"
    /\ applied.end_hour - applied.start_hour = 2
    /\ \A h \in applied.start_hour .. applied.end_hour : <<applied.day, h>> \notin schedule
    /\ \E cell \in schedule : cell[1] # applied.day

MouseOps == {"on_mouse_down", "on_mouse_drag", "on_mouse_up"}

\* C15: under mouse-down, mouse-drag and mouse-up events in any order, inside
\* or outside the grid, the schedule changes only at a mouse-up on an editable
\* canvas whose drag a mouse-down on a grid cell started; a drag only starts
\* at such a mouse-down; while a drag is on, its current cell is on the day of
\* its start cell; and after every mouse-up start, current and mode are none
C15_MouseEvents ==
    [][op' \in MouseOps
       => /\ schedule' # schedule
             => (op' = "on_mouse_up" /\ editable /\ drag_start # None)
          /\ ~editable => UNCHANGED <<schedule, drag_start, drag_current, drag_mode>>
          /\ (drag_start' # None /\ drag_start' # drag_start)
             => (op' = "on_mouse_down" /\ event_cell' = drag_start' /\ drag_start' \in Grid)
          /\ drag_start' # None
             => (drag_current' # None /\ drag_current'[1] = drag_start'[1])
          /\ op' = "on_mouse_up"
             => (drag_start' = None /\ drag_current' = None /\ drag_mode' = NoMode)
    ]_vars

\* C15 witness: during a drag a mouse-drag on a cell of another day came, and
\* the current cell is still on the start's day
C15_Witness ==
    /\ op = "on_mouse_drag"
    /\ drag_start # None
    /\ event_cell # None
    /\ event_cell[1] # drag_start[1]
    /\ drag_current[1] = drag_start[1]

=============================================================================
